---- MODULE Spec2Model ----
(***************************************************************************)
(* A model of ndmachine (src/src/lib.rs): a thread-local session that      *)
(* holds a CNF instance and the last assignment found for it, and the      *)
(* ndbool handles whose connectives are Tseitin-encoded into the instance. *)
(***************************************************************************)
EXTENDS Integers, Sequences, FiniteSets, TLC

\* Bounds of the model.
MaxVars == 1        \* Spec, SpecThreads: an operation that allocates is offered to the
                    \* main context while its instance holds at most MaxVars - 1 variables
MaxUnits == 1       \* Spec: ndassert and its kin are offered while the store holds at
                    \* most MaxUnits - 1 unit clauses
MaxOperands == 2    \* SpecGates: fresh operands

\* The variables whose handles the program still uses after the main context
\* has re-initialized (stale handles).
StaleKept == {1}

\* The execution contexts (threads); each has its own thread-local MACHINE.
Main == 1
Threads == {1, 2}

VARIABLES MACHINE, handles, last

vars == <<MACHINE, handles, last>>

(***************************************************************************)
(* Option<T>: None is the empty sequence, Some(x) the one-element one.     *)
(***************************************************************************)
None == <<>>
Some(x) == <<x>>
is_some(o) == o # None
unwrap(o) == o[1]

Abs(n) == IF n < 0 THEN -n ELSE n
MaxOf(S) == CHOOSE m \in S : \A n \in S : n <= m

(***************************************************************************)
(* The sat crate's Instance, Literal and Assignment as ndmachine uses      *)
(* them.  A literal is a non-zero integer: v is variable v asserted, -v    *)
(* is variable v negated.  Variables are numbered 1, 2, ... in allocation  *)
(* order.                                                                  *)
(***************************************************************************)
Instance_new == [num_vars |-> 0, cnf_clauses |-> <<>>]

fresh_var(instance) ==
    [instance |-> [instance EXCEPT !.num_vars = @ + 1], l |-> instance.num_vars + 1]

\* (A faulty variant: the clause is put in front of the others)
assert_any_front(instance, lits) == [instance EXCEPT !.cnf_clauses = <<lits>> \o @]

assert_any(instance, lits) == [instance EXCEPT !.cnf_clauses = Append(@, lits)]

\* The possible results of Assignment::get, as strings: the variable's value
\* with the literal's polarity applied.  For a variable the assignment does not
\* cover the crate decides (an abort, or either value).
Assignment_get(assignment, lit) ==
    IF Abs(lit) \notin DOMAIN assignment THEN {"IndexOutOfBounds", "true", "false"}
    ELSE IF assignment[Abs(lit)] = (lit > 0) THEN {"true"} ELSE {"false"}

\* The variables the clauses name.
NamedVars(clauses) ==
    UNION {{Abs(clauses[i][j]) : j \in DOMAIN clauses[i]} : i \in DOMAIN clauses}

NumUnits(clauses) == Cardinality({i \in DOMAIN clauses : Len(clauses[i]) = 1})

LitHolds(assignment, lit) == assignment[Abs(lit)] = (lit > 0)

ClauseHolds(assignment, clause) == \E j \in DOMAIN clause : LitHolds(assignment, clause[j])

Satisfies(assignment, clauses) == \A i \in DOMAIN clauses : ClauseHolds(assignment, clauses[i])

\* The variables a backend decides: the allocated ones and any other a clause names.
SolverVars(instance) == 1..MaxOf({instance.num_vars} \cup NamedVars(instance.cnf_clauses))

\* Solver::solve of a sound backend: None (unsatisfiable, or the backend
\* failed), or Some assignment of every variable that satisfies every clause.
Solver_solve(instance) ==
    {None} \cup {Some(x) : x \in {y \in [SolverVars(instance) -> BOOLEAN] :
                                     Satisfies(y, instance.cnf_clauses)}}

(***************************************************************************)
(* NdMachine and the bodies of the closures run on it.  A body maps the    *)
(* machine to the machine it leaves and, where the closure returns a       *)
(* handle, that handle's literal l.                                        *)
(***************************************************************************)
\* (A faulty variant: a new machine that already holds an assignment)
NdMachine_new_solved == [instance |-> Instance_new, assignment |-> Some(<<>>)]

NdMachine_new == [instance |-> Instance_new, assignment |-> None]

\* (A faulty variant: a failed solve keeps the assignment of the solve before)
solve_by_body_keep(machine, sol) ==
    IF sol = None THEN machine ELSE [machine EXCEPT !.assignment = sol]

solve_by_body(machine, sol) == [machine EXCEPT !.assignment = sol]

ndassert_body(machine, b) ==
    [machine |-> [machine EXCEPT !.instance = assert_any(@, <<b>>)], l |-> 0]

\* (A faulty variant: t asserts the unit clause of either polarity)
t_body_both(machine) ==
    LET fv == fresh_var(machine.instance)
        l == fv.l
        i1 == assert_any(fv.instance, <<l>>)
    IN  [machine |-> [instance |-> assert_any(i1, <<-l>>), assignment |-> None],
         l |-> l]

t_body(machine) ==
    LET fv == fresh_var(machine.instance)
        l == fv.l
    IN  [machine |-> [instance |-> assert_any(fv.instance, <<l>>), assignment |-> None],
         l |-> l]

\* (A faulty variant: f asserts the unit clause that forces the variable true)
f_body_pos(machine) ==
    LET fv == fresh_var(machine.instance)
        l == fv.l
    IN  [machine |-> [instance |-> assert_any(fv.instance, <<l>>), assignment |-> None],
         l |-> l]

f_body(machine) ==
    LET fv == fresh_var(machine.instance)
        l == fv.l
    IN  [machine |-> [instance |-> assert_any(fv.instance, <<-l>>), assignment |-> None],
         l |-> l]

fresh_body(machine) ==
    LET fv == fresh_var(machine.instance)
    IN  [machine |-> [machine EXCEPT !.instance = fv.instance], l |-> fv.l]

\* (the possible results)
value_body(machine, self) ==
    IF machine.assignment = None THEN {"NoSolutionAvailable"}
    ELSE Assignment_get(unwrap(machine.assignment), self)

\* (A faulty variant: Not returns the handle it was given)
not_body_same(self) == self

not_body(self) == -self

\* (A faulty variant: the third clause of the gate with the auxiliary's polarity flipped)
bitand_body_flipped(machine, self, other) ==
    LET fv == fresh_var(machine.instance)
        l == fv.l
        i1 == assert_any(fv.instance, <<-self, -other, l>>)
        i2 == assert_any(i1, <<self, -l>>)
        i3 == assert_any(i2, <<other, l>>)
    IN  [machine |-> [instance |-> i3, assignment |-> None], l |-> l]

bitand_body(machine, self, other) ==
    LET fv == fresh_var(machine.instance)
        l == fv.l
        i1 == assert_any(fv.instance, <<-self, -other, l>>)
        i2 == assert_any(i1, <<self, -l>>)
        i3 == assert_any(i2, <<other, -l>>)
    IN  [machine |-> [instance |-> i3, assignment |-> None], l |-> l]

\* (A faulty variant: the gate without its third clause's negation of other)
bitor_body_flipped(machine, self, other) ==
    LET fv == fresh_var(machine.instance)
        l == fv.l
        i1 == assert_any(fv.instance, <<self, other, -l>>)
        i2 == assert_any(i1, <<-self, l>>)
        i3 == assert_any(i2, <<other, l>>)
    IN  [machine |-> [instance |-> i3, assignment |-> None], l |-> l]

bitor_body(machine, self, other) ==
    LET fv == fresh_var(machine.instance)
        l == fv.l
        i1 == assert_any(fv.instance, <<self, other, -l>>)
        i2 == assert_any(i1, <<-self, l>>)
        i3 == assert_any(i2, <<-other, l>>)
    IN  [machine |-> [instance |-> i3, assignment |-> None], l |-> l]

\* (A faulty variant: the conjunction of the two gates without the negation)
bitxor_body_nonot(machine, self, other) ==
    LET o == bitor_body(machine, self, other)
        a == bitand_body(o.machine, self, other)
    IN  bitand_body(a.machine, o.l, a.l)

\* (self | other) & !(self & other), operands evaluated left to right.
bitxor_body(machine, self, other) ==
    LET o == bitor_body(machine, self, other)
        a == bitand_body(o.machine, self, other)
    IN  bitand_body(a.machine, o.l, not_body(a.l))

\* (A faulty variant: the first disjunction without the negation of rhs)
ndeq_body_nonot(machine, self, rhs) ==
    LET o1 == bitor_body(machine, self, rhs)
        o2 == bitor_body(o1.machine, not_body(self), rhs)
    IN  bitand_body(o2.machine, o1.l, o2.l)

\* (*self | !*rhs) & (!*self | *rhs)
ndeq_body(machine, self, rhs) ==
    LET o1 == bitor_body(machine, self, not_body(rhs))
        o2 == bitor_body(o1.machine, not_body(self), rhs)
    IN  bitand_body(o2.machine, o1.l, o2.l)

\* (A faulty variant: ndne without the negation)
ndne_body_same(machine, self, rhs) ==
    LET e == ndeq_body(machine, self, rhs)
    IN  [machine |-> e.machine, l |-> e.l]

\* !self.ndeq(rhs)
ndne_body(machine, self, rhs) ==
    LET e == ndeq_body(machine, self, rhs)
    IN  [machine |-> e.machine, l |-> not_body(e.l)]

ndassert_eq_body(machine, lhs, rhs) ==
    LET e == ndeq_body(machine, lhs, rhs)
    IN  ndassert_body(e.machine, e.l)

\* (A faulty variant: ndassert_ne asserting the equality)
ndassert_ne_body_eq(machine, lhs, rhs) ==
    LET e == ndeq_body(machine, lhs, rhs)
    IN  ndassert_body(e.machine, e.l)

ndassert_ne_body(machine, lhs, rhs) ==
    LET e == ndne_body(machine, lhs, rhs)
    IN  ndassert_body(e.machine, e.l)

(***************************************************************************)
(* The operations as actions of a context th.                              *)
(***************************************************************************)
\* What the context's session was when an operation began: whether the
\* assignment slot was present, and the sizes of the store.
Pre(th) ==
    IF MACHINE[th] = None THEN [had |-> FALSE, nv |-> 0, nc |-> 0]
    ELSE [had |-> is_some(unwrap(MACHINE[th]).assignment),
          nv |-> unwrap(MACHINE[th]).instance.num_vars,
          nc |-> Len(unwrap(MACHINE[th]).instance.cnf_clauses)]

\* What an operation leaves in `last`: the context, the operation's name,
\* its operands (0: none), how it ended, the literal of the handle it
\* returned (0: none), for solve_by what the backend returned, and Pre.
Outcome(th, op, a, b, out, l, sol) ==
    [th |-> th, op |-> op, a |-> a, b |-> b, out |-> out, l |-> l, sol |-> sol,
     pre |-> Pre(th)]

\* (A faulty variant: with creates the missing machine before it panics)
with_panic_lazy(th, op) ==
    /\ last' = Outcome(th, op, 0, 0, "UninitializedMachine", 0, None)
    /\ MACHINE' = [MACHINE EXCEPT ![th] = Some(NdMachine_new)]
    /\ UNCHANGED handles

\* NdMachine::with finding no machine in the context: the panic unwinds before
\* the closure sees its operands, and the thread-local keeps None.
with_panic(th, op) ==
    /\ last' = Outcome(th, op, 0, 0, "UninitializedMachine", 0, None)
    /\ UNCHANGED <<MACHINE, handles>>

\* (A faulty variant: one machine shared by every context, as a process-wide static)
with_some_shared(th, op, a, b, r) ==
    /\ MACHINE' = [th2 \in Threads |-> Some(r.machine)]
    /\ handles' = handles \cup ({Abs(r.l)} \ {0})
    /\ last' = Outcome(th, op, a, b, "ok", r.l, None)

\* NdMachine::with running a closure whose body leaves r.machine and returns r.l.
with_some(th, op, a, b, r) ==
    /\ MACHINE' = [MACHINE EXCEPT ![th] = Some(r.machine)]
    /\ handles' = handles \cup ({Abs(r.l)} \ {0})
    /\ last' = Outcome(th, op, a, b, "ok", r.l, None)

\* The literals of the handles the program holds; ndbool is Copy and Not is
\* pure, so both polarities of each, in any context.
Lits == handles \cup {-v : v \in handles}

Init ==
    /\ MACHINE = [th \in Threads |-> None]
    /\ handles = {}
    /\ last = Outcome(Main, "start", 0, 0, "ok", 0, None)

\* The handles the program still holds once context th has initialized: after a
\* re-initialization of the main context, which allocated them, only StaleKept.
KeptHandles(th) ==
    IF th = Main /\ MACHINE[th] # None THEN handles \cap StaleKept ELSE handles

\* (A faulty variant: a re-initialization that clears the assignment and keeps the instance)
init_keep(th) ==
    /\ MACHINE' = [MACHINE EXCEPT ![th] =
                      IF @ = None THEN Some(NdMachine_new)
                      ELSE Some([unwrap(@) EXCEPT !.assignment = None])]
    /\ last' = Outcome(th, "init", 0, 0, "ok", 0, None)
    /\ handles' = KeptHandles(th)

init(th) ==
    /\ MACHINE' = [MACHINE EXCEPT ![th] = Some(NdMachine_new)]
    /\ last' = Outcome(th, "init", 0, 0, "ok", 0, None)
    /\ handles' = KeptHandles(th)

solve_by(th) ==
    IF MACHINE[th] = None THEN with_panic(th, "solve_by")
    ELSE \E sol \in Solver_solve(unwrap(MACHINE[th]).instance) :
            /\ MACHINE' = [MACHINE EXCEPT ![th] = Some(solve_by_body(unwrap(@), sol))]
            /\ last' = Outcome(th, "solve_by", 0, 0,
                               IF is_some(sol) THEN "true" ELSE "false", 0, sol)
            /\ UNCHANGED handles

ndassert(th) ==
    IF MACHINE[th] = None THEN Lits # {} /\ with_panic(th, "ndassert")
    ELSE \E b \in Lits :
             with_some(th, "ndassert", b, 0, ndassert_body(unwrap(MACHINE[th]), b))

ndassert_eq(th) ==
    IF MACHINE[th] = None THEN Lits # {} /\ with_panic(th, "ndassert_eq")
    ELSE \E lhs \in Lits, rhs \in Lits :
             with_some(th, "ndassert_eq", lhs, rhs,
                          ndassert_eq_body(unwrap(MACHINE[th]), lhs, rhs))

ndassert_ne(th) ==
    IF MACHINE[th] = None THEN Lits # {} /\ with_panic(th, "ndassert_ne")
    ELSE \E lhs \in Lits, rhs \in Lits :
             with_some(th, "ndassert_ne", lhs, rhs,
                          ndassert_ne_body(unwrap(MACHINE[th]), lhs, rhs))

t(th) ==
    IF MACHINE[th] = None THEN with_panic(th, "t")
    ELSE with_some(th, "t", 0, 0, t_body(unwrap(MACHINE[th])))

f(th) ==
    IF MACHINE[th] = None THEN with_panic(th, "f")
    ELSE with_some(th, "f", 0, 0, f_body(unwrap(MACHINE[th])))

fresh(th) ==
    IF MACHINE[th] = None THEN with_panic(th, "fresh")
    ELSE with_some(th, "fresh", 0, 0, fresh_body(unwrap(MACHINE[th])))

value(th) ==
    IF MACHINE[th] = None THEN Lits # {} /\ with_panic(th, "value")
    ELSE \E self \in Lits :
             \E out \in value_body(unwrap(MACHINE[th]), self) :
                 /\ last' = Outcome(th, "value", self, 0, out, 0, None)
                 /\ UNCHANGED <<MACHINE, handles>>

not(th) ==
    \E self \in Lits :
        /\ last' = Outcome(th, "not", self, 0, "ok", not_body(self), None)
        /\ UNCHANGED <<MACHINE, handles>>

bitand(th) ==
    IF MACHINE[th] = None THEN Lits # {} /\ with_panic(th, "bitand")
    ELSE \E self \in Lits, other \in Lits :
             with_some(th, "bitand", self, other,
                       bitand_body(unwrap(MACHINE[th]), self, other))

bitor(th) ==
    IF MACHINE[th] = None THEN Lits # {} /\ with_panic(th, "bitor")
    ELSE \E self \in Lits, other \in Lits :
             with_some(th, "bitor", self, other,
                       bitor_body(unwrap(MACHINE[th]), self, other))

bitxor(th) ==
    IF MACHINE[th] = None THEN Lits # {} /\ with_panic(th, "bitxor")
    ELSE \E self \in Lits, other \in Lits :
             with_some(th, "bitxor", self, other,
                       bitxor_body(unwrap(MACHINE[th]), self, other))

ndeq(th) ==
    IF MACHINE[th] = None THEN Lits # {} /\ with_panic(th, "ndeq")
    ELSE \E self \in Lits, rhs \in Lits :
             with_some(th, "ndeq", self, rhs, ndeq_body(unwrap(MACHINE[th]), self, rhs))

ndne(th) ==
    IF MACHINE[th] = None THEN Lits # {} /\ with_panic(th, "ndne")
    ELSE \E self \in Lits, rhs \in Lits :
             with_some(th, "ndne", self, rhs, ndne_body(unwrap(MACHINE[th]), self, rhs))

(***************************************************************************)
(* The specifications: which contexts run, and how far.                    *)
(***************************************************************************)
NumVars(th) == unwrap(MACHINE[th]).instance.num_vars
Clauses(th) == unwrap(MACHINE[th]).instance.cnf_clauses

\* An operation that allocates is offered to the main context while its
\* instance holds fewer than MaxVars variables, one that asserts a handle while
\* its store has fewer than MaxUnits unit clauses.  The other contexts allocate
\* nothing and assert nothing: they initialize, solve and read.  A context
\* without a machine is offered everything (and panics).
CanAllocate(th) ==
    IF MACHINE[th] = None THEN TRUE ELSE th = Main /\ NumVars(th) < MaxVars
CanAssert(th) ==
    IF MACHINE[th] = None THEN TRUE ELSE th = Main /\ NumUnits(Clauses(th)) < MaxUnits

\* One context.
Next ==
    \/ init(Main)
    \/ solve_by(Main)
    \/ CanAssert(Main) /\ ndassert(Main)
    \/ CanAssert(Main) /\ CanAllocate(Main) /\ ndassert_eq(Main)
    \/ CanAssert(Main) /\ CanAllocate(Main) /\ ndassert_ne(Main)
    \/ CanAllocate(Main) /\ t(Main)
    \/ CanAllocate(Main) /\ f(Main)
    \/ CanAllocate(Main) /\ fresh(Main)
    \/ value(Main)
    \/ not(Main)
    \/ CanAllocate(Main) /\ bitand(Main)
    \/ CanAllocate(Main) /\ bitor(Main)
    \/ CanAllocate(Main) /\ bitxor(Main)
    \/ CanAllocate(Main) /\ ndeq(Main)
    \/ CanAllocate(Main) /\ ndne(Main)

Spec == Init /\ [][Next]_vars

\* Several contexts, interleaved in any order.  What ndassert, its kin and the
\* composed connectives do in a context that has a machine is Spec's matter;
\* here they are offered to the contexts that have none.
NoMachine(th) == MACHINE[th] = None

NextThreads ==
    \E th \in Threads :
        \/ init(th)
        \/ solve_by(th)
        \/ NoMachine(th) /\ ndassert(th)
        \/ NoMachine(th) /\ ndassert_eq(th)
        \/ NoMachine(th) /\ ndassert_ne(th)
        \/ CanAllocate(th) /\ t(th)
        \/ CanAllocate(th) /\ f(th)
        \/ CanAllocate(th) /\ fresh(th)
        \/ value(th)
        \/ not(th)
        \/ CanAllocate(th) /\ bitand(th)
        \/ CanAllocate(th) /\ bitor(th)
        \/ NoMachine(th) /\ bitxor(th)
        \/ NoMachine(th) /\ ndeq(th)
        \/ NoMachine(th) /\ ndne(th)

SpecThreads == Init /\ [][NextThreads]_vars

\* One session of the main context, in the shape of tests::test_and and
\* test_or: up to MaxOperands fresh operands, one connective applied to any of
\* the handles held, one handle asserted, solves and reads in any order.
NumGates(clauses) == Cardinality({i \in DOMAIN clauses : Len(clauses[i]) = 3})
NoGate(th) == MACHINE[th] # None /\ NumGates(Clauses(th)) = 0
NoUnit(th) == MACHINE[th] # None /\ NumUnits(Clauses(th)) = 0

NextGates ==
    \/ NoMachine(Main) /\ init(Main)
    \/ ~NoMachine(Main) /\ NumVars(Main) < MaxOperands /\ fresh(Main)
    \/ NoGate(Main) /\ bitand(Main)
    \/ NoGate(Main) /\ bitor(Main)
    \/ NoUnit(Main) /\ ndassert(Main)
    \/ ~NoMachine(Main) /\ solve_by(Main)
    \/ ~NoMachine(Main) /\ value(Main)

SpecGates == Init /\ [][NextGates]_vars

\* One session of the main context, in the shape of tests::test_xor: up to
\* MaxOperands fresh operands, one composed connective (xor, ndeq or ndne)
\* applied to any of the handles held while the store has no clause, one
\* handle asserted, solves in any order.
NoClause(th) == MACHINE[th] # None /\ Len(Clauses(th)) = 0

NextComposed ==
    \/ NoMachine(Main) /\ init(Main)
    \/ ~NoMachine(Main) /\ NumVars(Main) < MaxOperands /\ fresh(Main)
    \/ NoClause(Main) /\ bitxor(Main)
    \/ NoClause(Main) /\ ndeq(Main)
    \/ NoClause(Main) /\ ndne(Main)
    \/ NoUnit(Main) /\ ndassert(Main)
    \/ ~NoMachine(Main) /\ solve_by(Main)

SpecComposed == Init /\ [][NextComposed]_vars

\* The k-th gate of a store that begins with gates: its connective, its
\* operands and its auxiliary variable, read from the gate's first clause.
GateOf(clauses, k) ==
    LET c == clauses[3 * k - 2]
    IN  IF c[3] > 0 THEN [kind |-> "and", a |-> -c[1], b |-> -c[2], l |-> c[3]]
        ELSE [kind |-> "or", a |-> c[1], b |-> c[2], l |-> -c[3]]

\* The gates of the session so far are those of tests::test_and_comm and
\* test_or_comm, x(a, b) then x(b, a), or a beginning of those of
\* tests::test_and_assoc and test_or_assoc, x(a, b), x(x(a, b), c), x(b, c),
\* x(a, x(b, c)), for operands a, b, c that are any literals of the fresh
\* variables and x one of bitand, bitor.
LawGates(clauses) ==
    LET k == NumGates(clauses)
        g1 == GateOf(clauses, 1)
        g2 == GateOf(clauses, 2)
        g3 == GateOf(clauses, 3)
        g4 == GateOf(clauses, 4)
    IN  /\ Len(clauses) = 3 * k
        /\ k >= 2 => /\ g2.kind = g1.kind
                      /\ \/ k = 2 /\ g2.a = g1.b /\ g2.b = g1.a
                         \/ g2.a = g1.l /\ Abs(g2.b) < g1.l
        /\ k >= 3 => g3.kind = g1.kind /\ g3.a = g1.b /\ g3.b = g2.b
        /\ k >= 4 => g4.kind = g1.kind /\ g4.a = g1.a /\ g4.b = g3.l
        /\ k <= 4

\* The two sides of the law whose gates the store holds (0: not all there yet).
LawSides(clauses) ==
    LET k == NumGates(clauses)
    IN  IF k = 4 THEN <<GateOf(clauses, 2).l, GateOf(clauses, 4).l>>
        ELSE IF k = 2 /\ GateOf(clauses, 2).a # GateOf(clauses, 1).l
             THEN <<GateOf(clauses, 1).l, GateOf(clauses, 2).l>>
        ELSE <<0, 0>>

LawOpen(th) == MACHINE[th] # None /\ LawGates(Clauses(th))
LawNext(th) == LawGates(Clauses(th))
LawAsserted(th) == LawSides(Clauses(th)) = <<last'.a, last'.b>>

NextLaws ==
    \/ NoMachine(Main) /\ init(Main)
    \/ NoClause(Main) /\ NumVars(Main) < MaxOperands /\ fresh(Main)
    \/ LawOpen(Main) /\ bitand(Main) /\ LawNext(Main)'
    \/ LawOpen(Main) /\ bitor(Main) /\ LawNext(Main)'
    \/ LawOpen(Main) /\ ndassert_ne(Main) /\ LawAsserted(Main)
    \/ ~NoMachine(Main) /\ ~NoUnit(Main) /\ solve_by(Main)

SpecLaws == Init /\ [][NextLaws]_vars

\* One session of the main context in which nothing is asserted: constructors
\* and connectives over any of the handles held, offered while the instance
\* holds fewer than MaxOperands variables, solves and reads in any order.
CanGrow(th) == MACHINE[th] # None /\ NumVars(th) < MaxOperands

NextFree ==
    \/ NoMachine(Main) /\ init(Main)
    \/ CanGrow(Main) /\ t(Main)
    \/ CanGrow(Main) /\ f(Main)
    \/ CanGrow(Main) /\ fresh(Main)
    \/ ~NoMachine(Main) /\ not(Main)
    \/ CanGrow(Main) /\ bitand(Main)
    \/ CanGrow(Main) /\ bitor(Main)
    \/ CanGrow(Main) /\ bitxor(Main)
    \/ CanGrow(Main) /\ ndeq(Main)
    \/ CanGrow(Main) /\ ndne(Main)
    \/ ~NoMachine(Main) /\ solve_by(Main)
    \/ ~NoMachine(Main) /\ value(Main)

SpecFree == Init /\ [][NextFree]_vars

(***************************************************************************)
(* The claims.                                                             *)
(***************************************************************************)
SlotPresent(m) == m # None /\ unwrap(m).assignment # None

Panicked == last.out = "UninitializedMachine"

BoolStr(v) == IF v THEN "true" ELSE "false"

\* The operations that assert a clause or allocate a variable.
Mutating == {"t", "f", "fresh", "bitand", "bitor", "bitxor", "ndeq", "ndne",
             "ndassert", "ndassert_eq", "ndassert_ne"}

\* The operations that need the session.
SessionOps == Mutating \cup {"solve_by", "value"}

\* C1: the assignment slot is present only if no formula-mutating operation has
\* occurred since the solve that produced it: whenever such an operation has
\* just returned the slot is absent, and a value read that follows it directly
\* fails with NoSolutionAvailable.
C1_AbsentSinceMutation ==
    [][/\ (last'.op \in Mutating /\ last'.out = "ok")
            => unwrap(MACHINE'[last'.th]).assignment = None
       /\ (last.op \in Mutating /\ last.out = "ok"
              /\ last'.op = "value" /\ last'.th = last.th)
            => last'.out = "NoSolutionAvailable"]_vars

\* C2: ndassert(b) appends exactly the unit clause [b], allocates no variable
\* and leaves the assignment slot absent.
C2_AssertAppendsUnitAndInvalidates ==
    [][(last'.op = "ndassert" /\ last'.out = "ok") =>
          LET pre == unwrap(MACHINE[last'.th])
              post == unwrap(MACHINE'[last'.th])
          IN  /\ post.instance.cnf_clauses = Append(pre.instance.cnf_clauses, <<last'.a>>)
              /\ post.instance.num_vars = pre.instance.num_vars
              /\ post.assignment = None]_vars

\* C3: t, f, fresh, bitand, bitor and bitxor each leave the assignment slot
\* absent on return; fresh allocates exactly one variable and asserts no clause.
C3_AllocatorsInvalidate ==
    [][(last'.op \in {"t", "f", "fresh", "bitand", "bitor", "bitxor"} /\ last'.out = "ok") =>
          LET pre == unwrap(MACHINE[last'.th])
              post == unwrap(MACHINE'[last'.th])
          IN  /\ post.assignment = None
              /\ last'.op = "fresh" =>
                    /\ post.instance.num_vars = pre.instance.num_vars + 1
                    /\ last'.l = post.instance.num_vars
                    /\ post.instance.cnf_clauses = pre.instance.cnf_clauses]_vars

\* C4: solve_by hands the backend the current store and leaves the store as it
\* was; if the backend returns an assignment the slot holds exactly that
\* assignment and solve_by returns true; otherwise the slot is absent, whatever
\* it was before, and solve_by returns false.
C4_SolveStoresBackendResult ==
    [][(last'.op = "solve_by" /\ last'.out # "UninitializedMachine") =>
          LET pre == unwrap(MACHINE[last'.th])
              post == unwrap(MACHINE'[last'.th])
          IN  /\ last'.sol \in Solver_solve(pre.instance)
              /\ post.instance = pre.instance
              /\ post.assignment = last'.sol
              /\ last'.sol # None => last'.out = "true"
              /\ last'.sol = None => (last'.out = "false" /\ post.assignment = None)]_vars

\* C4 witness: a solve that failed on a session whose slot was present.
C4_Witness ==
    /\ last.op = "solve_by" /\ last.out = "false" /\ last.pre.had
    /\ unwrap(MACHINE[last.th]).assignment = None

\* C5: a step that takes a context's assignment slot from absent to present is
\* a solve_by of that context whose backend returned an assignment.
C5_OnlySolveMakesPresent ==
    [][\A th \in Threads :
          (~SlotPresent(MACHINE[th]) /\ SlotPresent(MACHINE'[th])) =>
              /\ last'.op = "solve_by" /\ last'.th = th
              /\ last'.sol # None /\ last'.out = "true"]_vars

\* C5 witness: a successful solve of a non-empty store whose slot was absent.
C5_Witness ==
    /\ last.op = "solve_by" /\ last.out = "true" /\ ~last.pre.had /\ last.pre.nc > 0
    /\ SlotPresent(MACHINE[last.th])

\* C6: value(a), for a handle a of the session, fails with NoSolutionAvailable
\* exactly when the slot is absent, which it is after any mutating operation;
\* with the slot present it returns the cached assignment's value of a's
\* variable with a's polarity applied; it changes neither the store nor the slot.
C6_ValueReadsSlot ==
    [][/\ (last'.op = "value" /\ last'.out # "UninitializedMachine"
              /\ Abs(last'.a) <= unwrap(MACHINE[last'.th]).instance.num_vars) =>
            LET pre == unwrap(MACHINE[last'.th])
            IN  /\ (last'.out = "NoSolutionAvailable") <=> (pre.assignment = None)
                /\ pre.assignment # None =>
                      /\ Abs(last'.a) \in DOMAIN unwrap(pre.assignment)
                      /\ last'.out = BoolStr(LitHolds(unwrap(pre.assignment), last'.a))
                /\ MACHINE' = MACHINE
       /\ (last.op \in Mutating /\ last.out = "ok"
              /\ last'.op = "value" /\ last'.th = last.th)
            => last'.out = "NoSolutionAvailable"]_vars

\* C7: in a context that has no machine every operation that needs the session
\* aborts with UninitializedMachine and creates none; init always succeeds.
C7_UninitializedPanics ==
    [][/\ (last'.op \in SessionOps /\ MACHINE[last'.th] = None)
            => (last'.out = "UninitializedMachine" /\ MACHINE' = MACHINE)
       /\ last'.op = "init" => (last'.out = "ok" /\ MACHINE'[last'.th] # None)]_vars

\* C7 witness: xor has panicked in a context without a machine while the main
\* context has one.
C7_Witness ==
    /\ last.op = "bitxor" /\ Panicked /\ last.th # Main
    /\ MACHINE[last.th] = None /\ MACHINE[Main] # None

\* C8: init leaves the context with an empty store and an absent slot, whatever
\* it held before; a value read right after it fails with NoSolutionAvailable
\* and a solve right after it is constrained by no clause.
C8_InitLeavesEmptySession ==
    [][/\ last'.op = "init" =>
              MACHINE'[last'.th] =
                  Some([instance |-> [num_vars |-> 0, cnf_clauses |-> <<>>],
                        assignment |-> None])
       /\ (last.op = "init" /\ last'.op = "value" /\ last'.th = last.th)
            => last'.out = "NoSolutionAvailable"
       /\ (last.op = "init" /\ last'.op = "solve_by" /\ last'.th = last.th)
            => last'.sol \in {None, Some(<<>>)}]_vars

\* C8 witness: init has replaced a session that held clauses and an assignment.
C8_Witness ==
    /\ last.op = "init" /\ last.pre.had /\ last.pre.nc > 0 /\ last.pre.nv > 0
    /\ unwrap(MACHINE[last.th]).instance.cnf_clauses = <<>>

\* The clauses of the Tseitin gates l <=> (a /\ b) and l <=> (a \/ b).
AndClauses(a, b, l) == << <<-a, -b, l>>, <<a, -l>>, <<b, -l>> >>
OrClauses(a, b, l) == << <<a, b, -l>>, <<-a, l>>, <<-b, l>> >>

\* The total assignments that satisfy every clause of the instance.
Models(instance) ==
    {x \in [SolverVars(instance) -> BOOLEAN] : Satisfies(x, instance.cnf_clauses)}

\* C9: bitand(a, b) allocates exactly one variable L and appends exactly
\* (-a \/ -b \/ L), (a \/ -L), (b \/ -L) in that order, so that every assignment
\* satisfying the store has L = a /\ b; and after assert(and(a, b)) a successful
\* solve gives value(a) = true and value(b) = true.
C9_AndGate ==
    [][/\ (last'.op = "bitand" /\ last'.out = "ok") =>
            LET pre == unwrap(MACHINE[last'.th]).instance
                post == unwrap(MACHINE'[last'.th]).instance
                a == last'.a
                b == last'.b
                L == pre.num_vars + 1
            IN  /\ last'.l = L
                /\ post.num_vars = L
                /\ post.cnf_clauses = pre.cnf_clauses \o AndClauses(a, b, L)
                /\ (Abs(a) <= pre.num_vars /\ Abs(b) <= pre.num_vars) =>
                      \A x \in Models(post) :
                          x[L] = (LitHolds(x, a) /\ LitHolds(x, b))
       /\ (last'.op = "solve_by" /\ last'.out = "true") =>
            LET post == unwrap(MACHINE'[last'.th])
                cl == post.instance.cnf_clauses
            IN  \A i \in 4..Len(cl) :
                    (/\ Len(cl[i]) = 1 /\ Len(cl[i-2]) = 2 /\ Len(cl[i-1]) = 2
                     /\ SubSeq(cl, i-3, i-1) = AndClauses(cl[i-2][1], cl[i-1][1], cl[i][1]))
                    => /\ value_body(post, cl[i-2][1]) = {"true"}
                       /\ value_body(post, cl[i-1][1]) = {"true"}]_vars

\* C9 witness: b0 = fresh, b1 = fresh, assert(b0 & b1), and the solve succeeded.
C9_Witness ==
    /\ last.op = "solve_by" /\ last.out = "true"
    /\ unwrap(MACHINE[Main]).instance.cnf_clauses = AndClauses(1, 2, 3) \o << <<3>> >>
    /\ unwrap(MACHINE[Main]).assignment = Some(<<TRUE, TRUE, TRUE>>)

\* C10: bitor(a, b) allocates exactly one variable L and appends exactly
\* (a \/ b \/ -L), (-a \/ L), (-b \/ L) in that order, so that every assignment
\* satisfying the store has L = a \/ b; and after assert(or(a, b)) a successful
\* solve gives value(a) = true or value(b) = true.
C10_OrGate ==
    [][/\ (last'.op = "bitor" /\ last'.out = "ok") =>
            LET pre == unwrap(MACHINE[last'.th]).instance
                post == unwrap(MACHINE'[last'.th]).instance
                a == last'.a
                b == last'.b
                L == pre.num_vars + 1
            IN  /\ last'.l = L
                /\ post.num_vars = L
                /\ post.cnf_clauses = pre.cnf_clauses \o OrClauses(a, b, L)
                /\ (Abs(a) <= pre.num_vars /\ Abs(b) <= pre.num_vars) =>
                      \A x \in Models(post) :
                          x[L] = (LitHolds(x, a) \/ LitHolds(x, b))
       /\ (last'.op = "solve_by" /\ last'.out = "true") =>
            LET post == unwrap(MACHINE'[last'.th])
                cl == post.instance.cnf_clauses
            IN  \A i \in 4..Len(cl) :
                    (/\ Len(cl[i]) = 1 /\ Len(cl[i-3]) = 3
                     /\ SubSeq(cl, i-3, i-1) = OrClauses(cl[i-3][1], cl[i-3][2], cl[i][1]))
                    => \/ value_body(post, cl[i-3][1]) = {"true"}
                       \/ value_body(post, cl[i-3][2]) = {"true"}]_vars

\* C10 witness: b0 = fresh, b1 = fresh, assert(b0 | b1), and the solve found
\* an assignment with b0 false.
C10_Witness ==
    /\ last.op = "solve_by" /\ last.out = "true"
    /\ unwrap(MACHINE[Main]).instance.cnf_clauses = OrClauses(1, 2, 3) \o << <<3>> >>
    /\ unwrap(MACHINE[Main]).assignment = Some(<<FALSE, TRUE, TRUE>>)

\* The clauses of xor(a, b) in a store that held n variables: the gate of
\* a \/ b, the gate of a /\ b, and the gate of their conjunction with the
\* second negated.
XorClauses(a, b, n) ==
    OrClauses(a, b, n + 1) \o AndClauses(a, b, n + 2) \o AndClauses(n + 1, -(n + 2), n + 3)

\* C11: bitxor(a, b) allocates exactly three variables (the auxiliary of the
\* or, then that of the and, then the result) and appends exactly the nine
\* clauses of (a \/ b) /\ ~(a /\ b), so that every assignment satisfying the
\* store has the result true iff exactly one of a, b is true; and after
\* assert(xor(a, b)) a successful solve gives value(a) # value(b).
C11_XorGate ==
    [][/\ (last'.op = "bitxor" /\ last'.out = "ok") =>
            LET pre == unwrap(MACHINE[last'.th]).instance
                post == unwrap(MACHINE'[last'.th]).instance
                a == last'.a
                b == last'.b
                n == pre.num_vars
            IN  /\ last'.l = n + 3
                /\ post.num_vars = n + 3
                /\ Len(post.cnf_clauses) = Len(pre.cnf_clauses) + 9
                /\ post.cnf_clauses = pre.cnf_clauses \o XorClauses(a, b, n)
                /\ (Abs(a) <= n /\ Abs(b) <= n) =>
                      \A x \in Models(post) :
                          x[n + 3] = (LitHolds(x, a) # LitHolds(x, b))
       /\ (last'.op = "solve_by" /\ last'.out = "true") =>
            LET post == unwrap(MACHINE'[last'.th])
                cl == post.instance.cnf_clauses
            IN  \A i \in 10..Len(cl) :
                    (/\ Len(cl[i]) = 1 /\ Len(cl[i-9]) = 3
                     /\ SubSeq(cl, i-9, i-1) = XorClauses(cl[i-9][1], cl[i-9][2], cl[i][1] - 3))
                    => value_body(post, cl[i-9][1]) # value_body(post, cl[i-9][2])]_vars

\* C11 witness: b0 = fresh, b1 = fresh, assert(b0 ^ b1), and the solve found
\* an assignment with b0 false and b1 true.
C11_Witness ==
    /\ last.op = "solve_by" /\ last.out = "true"
    /\ unwrap(MACHINE[Main]).instance.cnf_clauses = XorClauses(1, 2, 2) \o << <<5>> >>
    /\ unwrap(MACHINE[Main]).assignment = Some(<<FALSE, TRUE, TRUE, FALSE, TRUE>>)

\* The clauses of ndeq(a, b) in a store that held n variables: the gate of
\* a \/ ~b, the gate of ~a \/ b, and the gate of their conjunction.
EqClauses(a, b, n) ==
    OrClauses(a, -b, n + 1) \o OrClauses(-a, b, n + 2) \o AndClauses(n + 1, n + 2, n + 3)

\* C12: ndeq(a, b) appends exactly the clauses of (a \/ ~b) /\ (~a \/ b) and
\* returns the variable of the conjunction, which in every assignment
\* satisfying the store is true iff a and b have the same value; ndne(a, b)
\* leaves the store ndeq(a, b) leaves, no variable and no clause more, and
\* returns the same variable with the polarity flipped.
C12_EqGate ==
    [][(last'.op \in {"ndeq", "ndne"} /\ last'.out = "ok") =>
            LET pre == unwrap(MACHINE[last'.th]).instance
                post == unwrap(MACHINE'[last'.th]).instance
                a == last'.a
                b == last'.b
                n == pre.num_vars
            IN  /\ post.num_vars = n + 3
                /\ post.cnf_clauses = pre.cnf_clauses \o EqClauses(a, b, n)
                /\ last'.op = "ndeq" => last'.l = n + 3
                /\ last'.op = "ndne" => last'.l = -(n + 3)
                /\ (Abs(a) <= n /\ Abs(b) <= n) =>
                      \A x \in Models(post) :
                          /\ x[n + 3] = (LitHolds(x, a) = LitHolds(x, b))
                          /\ last'.op = "ndne" =>
                                LitHolds(x, last'.l) = (LitHolds(x, a) # LitHolds(x, b))]_vars

\* C12 witness: b0 = fresh, b1 = fresh, and b0.ndne(!b1) has returned.
C12_Witness ==
    /\ last.op = "ndne" /\ last.a = 1 /\ last.b = -2 /\ last.l = -5
    /\ unwrap(MACHINE[Main]).instance.cnf_clauses = EqClauses(1, -2, 2)
    /\ unwrap(MACHINE[Main]).instance.num_vars = 5

\* C13: for all a, b: ndassert_ne(a & b, b & a) leaves a store that no
\* assignment satisfies, so a solve with a sound backend returns false, though
\* the two gates have distinct auxiliary variables; and so with | in place of &.
C13_Commutative ==
    [][LET cl == unwrap(MACHINE'[Main]).instance.cnf_clauses
           g1 == GateOf(cl, 1)
           g2 == GateOf(cl, 2)
           comm == /\ Len(cl) = 16 /\ LawGates(SubSeq(cl, 1, 6))
                   /\ g2.a = g1.b /\ g2.b = g1.a /\ g2.kind = g1.kind
       IN  /\ (last'.op = "ndassert_ne" /\ last'.out = "ok" /\ comm
                  /\ last'.a = g1.l /\ last'.b = g2.l) =>
                 /\ g1.l # g2.l
                 /\ Models(unwrap(MACHINE'[Main]).instance) = {}
           /\ (last'.op = "solve_by" /\ last.op = "ndassert_ne" /\ last.out = "ok" /\ comm
                  /\ last.a = g1.l /\ last.b = g2.l) =>
                 last'.out = "false"]_vars

\* C13 witness: b0 = fresh, b1 = fresh, ndassert_ne(b0 | b1, b1 | b0), and the
\* solve has returned false.
C13_Witness ==
    /\ last.op = "solve_by" /\ last.out = "false"
    /\ SubSeq(Clauses(Main), 1, 6) = OrClauses(1, 2, 3) \o OrClauses(2, 1, 4)
    /\ SubSeq(Clauses(Main), 7, 16) = EqClauses(3, 4, 4) \o << <<-7>> >>

C15_FreeSessionSatisfiable ==
    MACHINE[Main] # None =>
        /\ Models(unwrap(MACHINE[Main]).instance) # {}
        /\ Solver_solve(unwrap(MACHINE[Main]).instance) # {None}

\* C15 witness: t, then ndeq of its handle with its negation, and a solve of
\* the ten clauses has succeeded.
C15_Witness ==
    /\ last.op = "solve_by" /\ last.out = "true"
    /\ Clauses(Main) = << <<1>> >> \o EqClauses(1, -1, 1)

\* C16: t allocates exactly one variable, different from every variable
\* allocated before, and appends exactly the unit clause that forces it true;
\* f does the same with the unit clause that forces it false; so a successful
\* solve leaves an assignment in which the handle of t reads true and that of
\* f reads false, and so does every value read of it that succeeds.
C16_Constants ==
    [][/\ (last'.op \in {"t", "f"} /\ last'.out = "ok") =>
            LET pre == unwrap(MACHINE[last'.th]).instance
                post == unwrap(MACHINE'[last'.th]).instance
                l == last'.l
            IN  /\ post.num_vars = pre.num_vars + 1
                /\ l = post.num_vars
                /\ l \notin 1..pre.num_vars
                /\ post.cnf_clauses =
                      Append(pre.cnf_clauses, IF last'.op = "t" THEN <<l>> ELSE <<-l>>)
       /\ (last'.op = "solve_by" /\ last'.out = "true") =>
            LET post == unwrap(MACHINE'[last'.th])
                cl == post.instance.cnf_clauses
            IN  \A i \in DOMAIN cl :
                    Len(cl[i]) = 1 =>
                        value_body(post, Abs(cl[i][1])) = {BoolStr(cl[i][1] > 0)}
       /\ (last'.op = "value" /\ last'.out \in {"true", "false"} /\ last'.a > 0) =>
            LET cl == unwrap(MACHINE[last'.th]).instance.cnf_clauses
            IN  \A i \in DOMAIN cl :
                    (Len(cl[i]) = 1 /\ Abs(cl[i][1]) = last'.a) =>
                        last'.out = BoolStr(cl[i][1] > 0)]_vars

\* C16 witness: t, t, a successful solve, and the second handle has been read.
C16_Witness ==
    /\ last.op = "value" /\ last.a = 2 /\ last.out = "true"
    /\ Clauses(Main) = << <<1>>, <<2>> >>
    /\ NumVars(Main) = 2

C18_LiteralsAllocated ==
    \A th \in Threads :
        MACHINE[th] # None =>
            NamedVars(Clauses(th)) \subseteq 1..NumVars(th)

\* C19: not(a) returns the handle of a's variable with the polarity flipped
\* and leaves every session as it was: no variable, no clause, the assignment
\* slot as before, a present one present with the same assignment; and
\* not(not(a)) is a.
C19_NotIsPure ==
    [][last'.op = "not" =>
          /\ last'.out = "ok"
          /\ Abs(last'.l) = Abs(last'.a)
          /\ (last'.l > 0) = ~(last'.a > 0)
          /\ not_body(last'.l) = last'.a
          /\ MACHINE' = MACHINE
          /\ \A th \in Threads :
                SlotPresent(MACHINE[th]) =>
                    /\ SlotPresent(MACHINE'[th])
                    /\ unwrap(MACHINE'[th]).assignment = unwrap(MACHINE[th]).assignment]_vars

\* C19 witness: a negated handle has been negated in a session that holds a
\* clause and an assignment.
C19_Witness ==
    /\ last.op = "not" /\ last.a = -1 /\ last.l = 1
    /\ SlotPresent(MACHINE[Main])
    /\ Len(Clauses(Main)) > 0 /\ NumVars(Main) > 0

\* C20: the sessions of distinct contexts are independent under any
\* interleaving: a step of one context, init and re-init included, leaves the
\* machine of every other context (store and assignment slot) as it was, and
\* an operation that needs the session panics with UninitializedMachine in a
\* context that has not initialized, whatever the other contexts hold.
C20_ContextsIndependent ==
    [][/\ \A th \in Threads : th # last'.th => MACHINE'[th] = MACHINE[th]
       /\ \A th \in Threads :
             (last'.th = th /\ last'.op \in SessionOps /\ MACHINE[th] = None) =>
                 /\ last'.out = "UninitializedMachine"
                 /\ MACHINE'[th] = None]_vars

\* C20 witness: another context has re-initialized its session, which held an
\* assignment, while the main context holds a clause and an assignment.
C20_Witness ==
    /\ last.op = "init" /\ last.th # Main /\ last.pre.had
    /\ SlotPresent(MACHINE[Main]) /\ Len(Clauses(Main)) > 0
    /\ unwrap(MACHINE[last.th]).assignment = None
====
